---- MODULE Spec2Model ----
(***************************************************************************)
(* Model of lib/services.js of loopback-sdk-angular: generateServices,     *)
(* describeModels (model collection and method augmentation) and           *)
(* buildScopes / buildScopesOfModel / buildScopeMethod (scope resolution). *)
(*                                                                         *)
(* JavaScript strings are sequences of one-character strings, so that      *)
(* capitalisation, lower-casing, the scope-method regular expression and   *)
(* String.replace are computed as the code computes them.  Method objects  *)
(* live in a heap and inherit through a prototype link, as objects made    *)
(* by Object.create do.                                                    *)
(***************************************************************************)
EXTENDS Integers, Sequences, FiniteSets, TLC

\* Longest method list of a class of the application handed to the generator.
MaxMethods == 2

-----------------------------------------------------------------------------
(* Optional values: an absent (undefined) property is <<>>, a present one <<v>>. *)

None == <<>>

Some(v) == <<v>>

IsSome(o) == o # <<>>

Val(o) == o[1]

-----------------------------------------------------------------------------
(* Strings *)

Lowers == <<"a","b","c","d","e","f","g","h","i","j","k","l","m",
            "n","o","p","q","r","s","t","u","v","w","x","y","z">>

Uppers == <<"A","B","C","D","E","F","G","H","I","J","K","L","M",
            "N","O","P","Q","R","S","T","U","V","W","X","Y","Z">>

toUpperCaseChar(ch) ==
  IF \E i \in 1..Len(Lowers) : Lowers[i] = ch
  THEN Uppers[CHOOSE i \in 1..Len(Lowers) : Lowers[i] = ch]
  ELSE ch

toLowerCaseChar(ch) ==
  IF \E i \in 1..Len(Uppers) : Uppers[i] = ch
  THEN Lowers[CHOOSE i \in 1..Len(Uppers) : Uppers[i] = ch]
  ELSE ch

toLowerCase(s) == [i \in 1..Len(s) |-> toLowerCaseChar(s[i])]

\* s.slice(from - 1): the characters of s from position `from` on.
Slice(s, from) == SubSeq(s, from, Len(s))

StartsWithAt(s, pat, i) ==
  /\ i + Len(pat) - 1 <= Len(s)
  /\ SubSeq(s, i, i + Len(pat) - 1) = pat

\* Position of the first occurrence of pat in s, 0 when there is none.
IndexOf(s, pat) ==
  IF \E i \in 1..Len(s) : StartsWithAt(s, pat, i)
  THEN CHOOSE i \in 1..Len(s) :
         /\ StartsWithAt(s, pat, i)
         /\ \A j \in 1..(i - 1) : ~StartsWithAt(s, pat, j)
  ELSE 0

\* s.match(/pat/) for a pattern of literal characters.
Contains(s, pat) == IndexOf(s, pat) # 0

\* s.replace(pat, rep): the first occurrence only.
ReplaceFirst(s, pat, rep) ==
  LET i == IndexOf(s, pat)
  IN  IF i = 0 THEN s
      ELSE SubSeq(s, 1, i - 1) \o rep \o Slice(s, i + Len(pat))

S_prototype == <<"p","r","o","t","o","t","y","p","e">>

S_prototypeDot == S_prototype \o <<".">>

S_create == <<"c","r","e","a","t","e">>

S_createMany == S_create \o <<"M","a","n","y">>

S_get == <<"g","e","t">>

S_delete == <<"d","e","l","e","t","e">>

S_destroyAll == <<"d","e","s","t","r","o","y","A","l","l">>

S_find == <<"f","i","n","d">>

S_patch == <<"p","a","t","c","h">>

S_widgets == <<"w","i","d","g","e","t","s">>

S_widget == <<"w","i","d","g","e","t">>

S_wIdget == <<"w","I","d","g","e","t">>

S_gadget == <<"g","a","d","g","e","t">>

S_recreate == <<"r","e","c","r","e","a","t","e">>

S_lbServices == <<"l","b","S","e","r","v","i","c","e","s">>

S_Use == <<"U","s","e"," ">>

S_instead == <<"(",")"," ","i","n","s","t","e","a","d",".">>

S_colons == <<":",":">>

S_underscores == <<"_","_">>

-----------------------------------------------------------------------------
(* normalizeDescription: a description is a string or an array of strings; *)
(* a string is kept as its lines, so that joining an array with newlines   *)
(* gives the string with those lines.                                      *)

normalizeDescription(desc) ==
  IF IsSome(desc) /\ Val(desc).isArray
  THEN Some([isArray |-> FALSE, lines |-> Val(desc).lines])
  ELSE desc

getFormattedModelName(modelName, opts) ==
  LET resourceModelName == <<toUpperCaseChar(modelName[1])>> \o Slice(modelName, 2)
  IN  IF opts.namespaceModels
      THEN opts.ngModuleName \o opts.namespaceDelimiter \o resourceModelName
      ELSE resourceModelName

-----------------------------------------------------------------------------
(* SCOPE_METHOD_REGEX = /^prototype.__([^_]+)__(.+)$/                      *)
(* After "prototype", one arbitrary character and "__", the operation is   *)
(* the run of characters up to the next underscore; it must be non-empty   *)
(* and followed by "__" and a non-empty scope name.                        *)

RegexOpStart == Len(S_prototype) + 1 + Len(S_underscores) + 1

FirstUnderscoreFrom(s, from) ==
  IF \E j \in from..Len(s) : s[j] = "_"
  THEN CHOOSE j \in from..Len(s) :
         s[j] = "_" /\ \A k \in from..(j - 1) : s[k] # "_"
  ELSE 0

RegexMatches(name) ==
  LET j == FirstUnderscoreFrom(name, RegexOpStart)
  IN  /\ StartsWithAt(name, S_prototype, 1)
      /\ StartsWithAt(name, S_underscores, Len(S_prototype) + 2)
      /\ j > RegexOpStart
      /\ StartsWithAt(name, S_underscores, j)
      /\ j + Len(S_underscores) <= Len(name)

RegexOp(name) ==
  SubSeq(name, RegexOpStart, FirstUnderscoreFrom(name, RegexOpStart) - 1)

RegexScopeName(name) ==
  Slice(name, FirstUnderscoreFrom(name, RegexOpStart) + Len(S_underscores))

-----------------------------------------------------------------------------
(* Method objects.  `proto` is the object an Object.create clone inherits  *)
(* from (0 for a method of the application); every other field is an own   *)
(* property, None when the object does not have it.  `kind` records which  *)
(* statement made the object.  isStatic stands for sharedMethod.isStatic   *)
(* and is only ever read.                                                  *)

VARIABLES options, classes, heap, result, pc, ci, si, mi, mlen, app0

vars == <<options, classes, heap, result, pc, ci, si, mi, mlen, app0>>

BaseObject(t) ==
  [kind |-> "method", proto |-> 0,
   name |-> Some(t.name), isStatic |-> Some(t.isStatic),
   accepts |-> Some(t.accepts), description |-> t.description,
   isReturningArray |-> Some(FALSE),
   resourceParams |-> None, hasResourceParams |-> None,
   internal |-> None, deprecated |-> None]

\* Object.create(proto): an object with no own property.
ObjectCreate(p, kind) ==
  [kind |-> kind, proto |-> p,
   name |-> None, isStatic |-> None, accepts |-> None, description |-> None,
   isReturningArray |-> None, resourceParams |-> None,
   hasResourceParams |-> None, internal |-> None, deprecated |-> None]

RECURSIVE Get(_, _, _)
\* Property lookup along the prototype chain.
Get(h, id, f) ==
  IF IsSome(h[id][f]) THEN h[id][f]
  ELSE IF h[id].proto = 0 THEN None
  ELSE Get(h, h[id].proto, f)

RECURSIVE Owner(_, _, _)
\* The object of the prototype chain that holds property f (0: none does).
Owner(h, id, f) ==
  IF IsSome(h[id][f]) THEN id
  ELSE IF h[id].proto = 0 THEN 0
  ELSE Owner(h, h[id].proto, f)

RECURSIVE Root(_, _)
\* The method of the application an object was cloned from.
Root(h, id) == IF h[id].proto = 0 THEN id ELSE Root(h, h[id].proto)

NameOf(h, id) == Val(Get(h, id, "name"))

-----------------------------------------------------------------------------
(* The application: parameters, methods and classes it may hold.           *)

idArg == [arg |-> "id", source |-> "path"]

nkArg == [arg |-> "nk", source |-> "path"]

fkArg == [arg |-> "fk", source |-> "path"]

dataArg == [arg |-> "data", source |-> "body"]

\* A parameter with no http mapping.
optionsArg == [arg |-> "options", source |-> "none"]

ScopeMethodName(op, scopeName) ==
  S_prototypeDot \o S_underscores \o op \o S_underscores \o scopeName

M_createStatic ==
  [name |-> S_create, isStatic |-> TRUE, accepts |-> <<dataArg>>,
   description |-> Some([isArray |-> TRUE, lines |-> <<"Create", "an instance">>])]

M_createProto ==
  [name |-> S_create, isStatic |-> FALSE, accepts |-> <<dataArg>>,
   description |-> None]

M_find ==
  [name |-> S_find, isStatic |-> TRUE, accepts |-> <<fkArg, optionsArg>>,
   description |-> Some([isArray |-> FALSE, lines |-> <<"Find">>])]

M_patch ==
  [name |-> S_prototypeDot \o S_patch, isStatic |-> FALSE,
   accepts |-> <<dataArg>>, description |-> None]

M_getWidgets ==
  [name |-> ScopeMethodName(S_get, S_widgets), isStatic |-> FALSE,
   accepts |-> <<optionsArg>>, description |-> None]

M_createWidgets ==
  [name |-> ScopeMethodName(S_create, S_widgets), isStatic |-> FALSE,
   accepts |-> <<dataArg>>, description |-> None]

M_deleteWidgets ==
  [name |-> ScopeMethodName(S_delete, S_widgets), isStatic |-> FALSE,
   accepts |-> <<>>, description |-> None]

SeqsUpTo(S, n) == UNION {[1..k -> S] : k \in 1..n}

\* A class of the REST adapter: c.name, c.ctor (and its accepts),
\* c.sharedClass.ctor.settings.description, whether the model is or derives
\* from the built-in User, the _targetClass of each relation of the model
\* prototype, the model's exposed-method filter, and c.methods.
ClassInput(name, hasCtor, ctorAccepts, methods, target, swagger) ==
  [name |-> name, hasCtor |-> hasCtor, ctorAccepts |-> ctorAccepts,
   settingsDescription |->
     IF hasCtor THEN Some([isArray |-> TRUE, lines |-> <<"A", "model">>])
     ELSE Some([isArray |-> FALSE, lines |-> <<"A model">>]),
   userCtor |-> (name = S_gadget),
   targets |-> [s \in {S_widgets} |-> target],
   swaggerMethods |-> swagger,
   methods |-> methods]

\* A plain class that has one relation, back to model gadget.
PlainClass(name) ==
  ClassInput(name, TRUE, <<idArg>>, <<M_getWidgets>>, Some(S_gadget), None)

\* The options after the defaults of generateServices are merged in,
\* without modelsToIgnore.
Options(nm, nc, d) ==
  [ngModuleName |-> S_lbServices, namespaceModels |-> nm,
   namespaceCommonModels |-> nc, namespaceDelimiter |-> d]

DefaultOptions == Options(FALSE, FALSE, <<".">>)

\* modelsToIgnore: nothing, or the formatted name of one class.
IgnoreLists(app, o) ==
  {{}} \cup {{getFormattedModelName(app[i].name, o)} : i \in 1..Len(app)}

\* The classes registered after the first one.
OtherClasses ==
  {<<>>, <<PlainClass(S_widget)>>, <<PlainClass(S_widget), PlainClass(S_wIdget)>>}

RelationTargets == {None, Some(S_widget), Some(S_gadget)}

SwaggerFilters ==
  {None, Some({S_underscores \o S_create \o S_underscores \o S_widgets})}

\* Runs that vary the method lists and the constructor parameters.
AugmentInputs ==
  {[app |-> <<ClassInput(S_gadget, hasCtor, ctorAccepts, methods,
                         Some(S_widget), None),
              PlainClass(S_widget)>>,
    options |-> DefaultOptions, ignore |-> {}] :
     hasCtor \in BOOLEAN,
     ctorAccepts \in {<<>>, <<idArg>>, <<idArg, nkArg>>},
     methods \in SeqsUpTo({M_createStatic, M_createProto, M_find, M_patch,
                           M_getWidgets}, MaxMethods)}

\* Runs that vary the relation methods, their target and the filter.
ScopeInputs ==
  {[app |-> <<ClassInput(name, TRUE, <<idArg>>, methods, target, swagger)>>
             \o others,
    options |-> Options(nm, FALSE, <<".">>), ignore |-> {}] :
     name \in {S_gadget, S_recreate},
     methods \in SeqsUpTo({M_getWidgets, M_createWidgets, M_deleteWidgets,
                           M_createStatic}, MaxMethods),
     target \in RelationTargets,
     swagger \in SwaggerFilters,
     others \in OtherClasses,
     nm \in BOOLEAN}

ConfigApps ==
  {<<ClassInput(S_gadget, TRUE, <<idArg>>, methods, target, swagger)>> \o others :
     methods \in {<<M_getWidgets, M_createWidgets>>, <<M_createStatic>>},
     target \in RelationTargets,
     swagger \in SwaggerFilters,
     others \in OtherClasses}

\* Runs that vary the options and the ignore list.
ConfigInputs ==
  UNION {{[app |-> app, options |-> Options(nm, nc, d), ignore |-> ignore] :
            ignore \in IgnoreLists(app, Options(nm, nc, d))} :
         app \in ConfigApps, nm \in BOOLEAN, nc \in BOOLEAN,
         d \in {<<".">>, <<"_">>}}

Inputs == AugmentInputs \cup ScopeInputs \cup ConfigInputs

RECURSIVE MethodCountBefore(_, _)
MethodCountBefore(app, i) ==
  IF i <= 1 THEN 0
  ELSE MethodCountBefore(app, i - 1) + Len(app[i - 1].methods)

RECURSIVE InitHeap(_, _)
InitHeap(app, i) ==
  IF i > Len(app) THEN <<>>
  ELSE [k \in 1..Len(app[i].methods) |-> BaseObject(app[i].methods[k])]
       \o InitHeap(app, i + 1)

InitClasses(app) ==
  [i \in 1..Len(app) |->
     [name |-> app[i].name, hasCtor |-> app[i].hasCtor,
      ctorAccepts |-> app[i].ctorAccepts,
      settingsDescription |-> app[i].settingsDescription,
      userCtor |-> app[i].userCtor,
      targets |-> app[i].targets,
      swaggerMethods |-> app[i].swaggerMethods,
      methods |-> [k \in 1..Len(app[i].methods) |-> MethodCountBefore(app, i) + k],
      description |-> None, isUser |-> None, scopes |-> None]]

Init ==
  \E in \in Inputs :
    /\ options = [ngModuleName |-> in.options.ngModuleName,
                  namespaceModels |-> in.options.namespaceModels,
                  namespaceCommonModels |-> in.options.namespaceCommonModels,
                  namespaceDelimiter |-> in.options.namespaceDelimiter,
                  modelsToIgnore |-> in.ignore]
    /\ classes = InitClasses(in.app)
    /\ heap = InitHeap(in.app, 1)
    /\ result = <<>>
    /\ pc = "describeModels"
    /\ ci = 1
    /\ si = 0
    /\ mi = 0
    /\ mlen = 0
    /\ app0 = [classes |-> InitClasses(in.app), heap |-> InitHeap(in.app, 1)]

-----------------------------------------------------------------------------
(* describeModels: the callback run for each class of the REST adapter.    *)

ClassName == getFormattedModelName(classes[ci].name, options)

\* models[name] = c: an object keeps its keys in the order they were added.
ModelsIndex(models, name) ==
  IF \E i \in 1..Len(models) : models[i].name = name
  THEN CHOOSE i \in 1..Len(models) : models[i].name = name
  ELSE 0

ModelsPut(models, name, c) ==
  IF ModelsIndex(models, name) = 0
  THEN Append(models, [name |-> name, cls |-> c])
  ELSE [models EXCEPT ![ModelsIndex(models, name)].cls = c]

\* c.methods.filter(method => method.name === 'create')
CreateMethods(h, methods) ==
  SelectSeq(methods, LAMBDA id : NameOf(h, id) = S_create)

\* Lines 180-187: the createMany clone of the only create method.
AddCreateMany(h, c) ==
  LET createMethod == CreateMethods(h, c.methods)
      createMany == [ObjectCreate(createMethod[1], "createMany") EXCEPT
                       !.name = Some(S_createMany),
                       !.isReturningArray = Some(TRUE)]
  IN  IF Len(createMethod) = 1
      THEN [heap |-> Append(h, createMany),
            methods |-> Append(c.methods, Len(h) + 1)]
      ELSE [heap |-> h, methods |-> c.methods]

\* method.resourceParams.push(arg), after creating the list when the method
\* sees none: push changes the array the property lookup finds.
PushResourceParam(h, id, arg) ==
  IF ~IsSome(Get(h, id, "resourceParams"))
  THEN [h EXCEPT ![id].resourceParams = Some(<<arg>>),
                 ![id].hasResourceParams = Some(TRUE)]
  ELSE [h EXCEPT ![Owner(h, id, "resourceParams")].resourceParams =
                   Some(Append(Val(@), arg))]

RECURSIVE findResourceParams(_, _, _, _)
\* method.accepts.forEach(findResourceParams), from argument k on.
findResourceParams(h, id, args, k) ==
  IF k > Len(args) THEN h
  ELSE IF args[k].source = "path" /\ args[k].arg # "id"
       THEN findResourceParams(PushResourceParam(h, id, args[k]), id, args, k + 1)
       ELSE findResourceParams(h, id, args, k + 1)

\* Whether fixArgsOfPrototypeMethods returns before touching the method.
SkipsMethod(h, c, id) == ~c.hasCtor \/ Val(Get(h, id, "isStatic"))

fixArgsOfPrototypeMethods(h, c, id) ==
  IF SkipsMethod(h, c, id) THEN h
  ELSE LET accepts == c.ctorAccepts \o Val(Get(h, id, "accepts"))
       IN  findResourceParams([h EXCEPT ![id].accepts = Some(accepts)],
                              id, accepts, 1)

fixDescription(h, id) ==
  [h EXCEPT ![id].description = normalizeDescription(Get(h, id, "description"))]

RECURSIVE FixMethods(_, _, _, _)
\* The two c.methods.forEach passes of lines 193-217, from method k on.
FixMethods(h, c, methods, k) ==
  IF k > Len(methods) THEN h
  ELSE FixMethods(fixDescription(fixArgsOfPrototypeMethods(h, c, methods[k]),
                                 methods[k]),
                  c, methods, k + 1)

\* Lines 157-160, run for every class before any check.
SetDescription(c) ==
  [c EXCEPT !.description = normalizeDescription(c.settingsDescription)]

\* Lines 162-167.
SkipIgnoredModel ==
  /\ pc = "describeModels"
  /\ ci <= Len(classes)
  /\ ClassName \in options.modelsToIgnore
  /\ classes' = [classes EXCEPT ![ci] = SetDescription(@)]
  /\ ci' = ci + 1
  /\ UNCHANGED <<options, heap, result, pc, si, mi, mlen, app0>>

\* Lines 169-174.
SkipNotModel ==
  /\ pc = "describeModels"
  /\ ci <= Len(classes)
  /\ ClassName \notin options.modelsToIgnore
  /\ ~classes[ci].hasCtor
  /\ classes' = [classes EXCEPT ![ci] = SetDescription(@)]
  /\ ci' = ci + 1
  /\ UNCHANGED <<options, heap, result, pc, si, mi, mlen, app0>>

\* Lines 176-221.
DescribeModel ==
  /\ pc = "describeModels"
  /\ ci <= Len(classes)
  /\ ClassName \notin options.modelsToIgnore
  /\ classes[ci].hasCtor
  /\ LET added == AddCreateMany(heap, classes[ci])
     IN  /\ heap' = FixMethods(added.heap, classes[ci], added.methods, 1)
         /\ classes' = [classes EXCEPT
                          ![ci] = [SetDescription(@) EXCEPT
                                     !.methods = added.methods,
                                     !.isUser = Some(classes[ci].userCtor)]]
  /\ result' = ModelsPut(result, ClassName, ci)
  /\ ci' = ci + 1
  /\ UNCHANGED <<options, pc, si, mi, mlen, app0>>

-----------------------------------------------------------------------------
(* buildScopes, buildScopesOfModel and buildScopeMethod.                   *)
(* A scope map is a sequence of entries in insertion order; an entry is    *)
(* the null sentinel (isNull) or a descriptor with its targetClass and its *)
(* methods, a sequence of [apiName, method].                               *)

\* The first model whose name equals `name` ignoring case (0: none).
findModelByName(models, name) ==
  IF \E i \in 1..Len(models) : toLowerCase(models[i].name) = toLowerCase(name)
  THEN CHOOSE i \in 1..Len(models) :
         /\ toLowerCase(models[i].name) = toLowerCase(name)
         /\ \A j \in 1..(i - 1) : toLowerCase(models[j].name) # toLowerCase(name)
  ELSE 0

\* Position of scopeName in a scope map (0: modelClass.scopes[scopeName]
\* is undefined).
ScopeIndex(scopes, scopeName) ==
  IF \E i \in 1..Len(scopes) : scopes[i].name = scopeName
  THEN CHOOSE i \in 1..Len(scopes) : scopes[i].name = scopeName
  ELSE 0

NullScope(scopeName) ==
  [name |-> scopeName, isNull |-> TRUE, targetClass |-> <<>>, methods |-> <<>>]

NewScope(scopeName, targetModelName) ==
  [name |-> scopeName, isNull |-> FALSE, targetClass |-> targetModelName,
   methods |-> <<>>]

\* scope.methods[apiName] = method
MethodsPut(methods, apiName, id) ==
  IF \E i \in 1..Len(methods) : methods[i].apiName = apiName
  THEN [methods EXCEPT
          ![CHOOSE i \in 1..Len(methods) : methods[i].apiName = apiName].method = id]
  ELSE Append(methods, [apiName |-> apiName, method |-> id])

\* modelPrototype[scopeName] && modelPrototype[scopeName]._targetClass
TargetClass(c, scopeName) ==
  IF scopeName \in DOMAIN c.targets THEN c.targets[scopeName] ELSE None

\* Lines 278-282: the exposed-method filter of app.models[modelName].
ExcludedBySwagger(c, name) ==
  LET methodName == ReplaceFirst(name, S_prototypeDot, <<>>)
  IN  IsSome(c.swaggerMethods) /\ methodName \notin Val(c.swaggerMethods)

\* Lines 293-300.
ApiName(op, scopeName) ==
  IF op = S_get THEN scopeName
  ELSE IF op = S_delete THEN scopeName \o <<".">> \o S_destroyAll
  ELSE scopeName \o <<".">> \o op

\* Lines 303-304.
InternalNote(modelName, apiName) ==
  LET ngModelName == <<toUpperCaseChar(modelName[1])>> \o Slice(modelName, 2)
  IN  S_Use \o ngModelName \o <<".">> \o apiName \o S_instead

\* ReverseName without the renaming: the reverse method keeps the name of
\* the relation method.
ReverseName_KeepsMethodName(op, modelName, scopeName) ==
  ScopeMethodName(op, scopeName)

\* Line 308.
ReverseName(op, modelName, scopeName) ==
  S_colons \o op \o S_colons \o modelName \o S_colons \o scopeName

StringNote(text) == [isString |-> TRUE, text |-> text]

\* internal = false
FalseNote == [isString |-> FALSE, text |-> <<>>]

\* Lines 310-332: the reverse method and its createMany clone, pushed to the
\* methods of the target model (class t).
AddReverseMethods(h, cs, t, id, reverseName, note) ==
  LET reverseMethod == [ObjectCreate(id, "reverse") EXCEPT
                          !.name = Some(reverseName),
                          !.internal = Some(StringNote(note)),
                          !.deprecated = Some(FALSE)]
      r == Len(h) + 1
      createMany == [ObjectCreate(r, "reverseCreateMany") EXCEPT
                       !.name = Some(ReplaceFirst(reverseName, S_create, S_createMany)),
                       !.internal = Some(StringNote(
                                      ReplaceFirst(note, S_create, S_createMany))),
                       !.isReturningArray = Some(TRUE)]
  IN  IF Contains(reverseName, S_create)
      THEN [heap |-> h \o <<reverseMethod, createMany>>,
            classes |-> [cs EXCEPT ![t].methods = @ \o <<r, r + 1>>]]
      ELSE [heap |-> Append(h, reverseMethod),
            classes |-> [cs EXCEPT ![t].methods = Append(@, r)]]

\* The key the createMany clone of a scope method is stored under (line 349).
CreateManyApiName(apiName) == ReplaceFirst(apiName, S_create, S_createMany)

\* Lines 334-351: the scope method and its createMany clone, stored in the
\* scope of the source model.
AddScopeMethods(h, scope, id, reverseName, apiName) ==
  LET scopeMethod == [ObjectCreate(id, "scope") EXCEPT
                        !.name = Some(reverseName),
                        !.deprecated = Some(FALSE),
                        !.internal = Some(FalseNote)]
      m == Len(h) + 1
      scopeCreateMany == [ObjectCreate(m, "scopeCreateMany") EXCEPT
                            !.name = Some(ReplaceFirst(reverseName, S_create,
                                                       S_createMany)),
                            !.isReturningArray = Some(TRUE)]
      methods == MethodsPut(scope.methods, apiName, m)
  IN  IF Contains(reverseName, S_create)
      THEN [heap |-> h \o <<scopeMethod, scopeCreateMany>>,
            scope |-> [scope EXCEPT
                         !.methods = MethodsPut(methods, CreateManyApiName(apiName),
                                                m + 1)]]
      ELSE [heap |-> Append(h, scopeMethod),
            scope |-> [scope EXCEPT !.methods = methods]]

\* ScopeDecision without lines 278-282: the exposed-method filter is not
\* consulted.
ScopeDecision_IgnoresFilter(models, c, name) ==
  LET scopeName == RegexScopeName(name)
      targetClass == TargetClass(c, scopeName)
      k == ScopeIndex(Val(c.scopes), scopeName)
  IN  IF k = 0
      THEN IF ~IsSome(targetClass) THEN "skip"
           ELSE IF findModelByName(models,
                     getFormattedModelName(Val(targetClass), options)) = 0
                THEN "null"
           ELSE "create"
      ELSE IF Val(c.scopes)[k].isNull THEN "skip"
      ELSE "reuse"

\* ScopeDecision with line 281 recording the null sentinel for a method the
\* filter excludes.
ScopeDecision_FilterLatches(models, c, name) ==
  LET scopeName == RegexScopeName(name)
      targetClass == TargetClass(c, scopeName)
      k == ScopeIndex(Val(c.scopes), scopeName)
  IN  IF k = 0
      THEN IF ~IsSome(targetClass) THEN "skip"
           ELSE IF findModelByName(models,
                     getFormattedModelName(Val(targetClass), options)) = 0
                THEN "null"
           ELSE IF ExcludedBySwagger(c, name) THEN "null"
           ELSE "create"
      ELSE IF Val(c.scopes)[k].isNull THEN "skip"
      ELSE "reuse"

\* What the checks of lines 268-291 decide for a relation method:
\* "skip" (return, nothing recorded), "null" (record the null sentinel and
\* return), "create" (record a new descriptor and go on) or "reuse" (go on
\* with the descriptor already there).
ScopeDecision(models, c, name) ==
  LET scopeName == RegexScopeName(name)
      targetClass == TargetClass(c, scopeName)
      k == ScopeIndex(Val(c.scopes), scopeName)
  IN  IF k = 0
      THEN IF ~IsSome(targetClass) THEN "skip"
           ELSE IF findModelByName(models,
                     getFormattedModelName(Val(targetClass), options)) = 0
                THEN "null"
           ELSE IF ExcludedBySwagger(c, name) THEN "skip"
           ELSE "create"
      ELSE IF Val(c.scopes)[k].isNull THEN "skip"
      ELSE "reuse"

\* Lines 293-351, for a relation method that passed the checks: the state
\* of the heap and the classes after the redirect note, the reverse methods
\* and the scope methods are made.  m is the source class, id the method.
ExposeScopeMethod(h, cs, models, modelName, m, id) ==
  LET name == NameOf(h, id)
      op == RegexOp(name)
      scopeName == RegexScopeName(name)
      targetModelName ==
        getFormattedModelName(Val(TargetClass(cs[m], scopeName)), options)
      apiName == ApiName(op, scopeName)
      note == InternalNote(modelName, apiName)
      reverseName == ReverseName(op, modelName, scopeName)
      t == models[findModelByName(models, targetModelName)].cls
      h1 == [h EXCEPT ![id].internal = Some(StringNote(note))]
      rev == AddReverseMethods(h1, cs, t, id, reverseName, note)
      k == ScopeIndex(Val(rev.classes[m].scopes), scopeName)
      sc == AddScopeMethods(rev.heap, Val(rev.classes[m].scopes)[k], id,
                            reverseName, apiName)
  IN  [heap |-> sc.heap,
       classes |-> [rev.classes EXCEPT
                      ![m].scopes = Some([Val(@) EXCEPT ![k] = sc.scope])]]

\* describeModels reaches line 224 once every class was visited.
BuildScopes ==
  /\ pc = "describeModels"
  /\ ci > Len(classes)
  /\ pc' = "buildScopes"
  /\ si' = 1
  /\ mi' = 0
  /\ UNCHANGED <<options, classes, heap, result, ci, mlen, app0>>

\* Lines 241-245: the scopes of the next model are reset and the forEach
\* over its methods starts; forEach visits the methods present at its start.
BuildScopesOfModel ==
  /\ pc = "buildScopes"
  /\ si <= Len(result)
  /\ mi = 0
  /\ classes' = [classes EXCEPT ![result[si].cls].scopes = Some(<<>>)]
  /\ mlen' = Len(classes[result[si].cls].methods)
  /\ mi' = 1
  /\ UNCHANGED <<options, heap, result, pc, ci, si, app0>>

\* The method the forEach of buildScopesOfModel is at.
CurrentClass == result[si].cls

CurrentMethod == classes[CurrentClass].methods[mi]

AtScopeMethod == pc = "buildScopes" /\ si <= Len(result) /\ mi >= 1 /\ mi <= mlen

\* Line 257: the method name does not match the pattern.
SkipOtherMethod ==
  /\ AtScopeMethod
  /\ ~RegexMatches(NameOf(heap, CurrentMethod))
  /\ mi' = mi + 1
  /\ UNCHANGED <<options, classes, heap, result, pc, ci, si, mlen, app0>>

\* Lines 268-291, the three returns.
SkipScopeMethod ==
  /\ AtScopeMethod
  /\ RegexMatches(NameOf(heap, CurrentMethod))
  /\ LET name == NameOf(heap, CurrentMethod)
         decision == ScopeDecision(result, classes[CurrentClass], name)
     IN  /\ decision \in {"skip", "null"}
         /\ classes' =
              IF decision = "null"
              THEN [classes EXCEPT ![CurrentClass].scopes =
                      Some(Append(Val(@), NullScope(RegexScopeName(name))))]
              ELSE classes
  /\ mi' = mi + 1
  /\ UNCHANGED <<options, heap, result, pc, ci, si, mlen, app0>>

\* Lines 284-351.
BuildScopeMethod ==
  /\ AtScopeMethod
  /\ RegexMatches(NameOf(heap, CurrentMethod))
  /\ LET name == NameOf(heap, CurrentMethod)
         c == classes[CurrentClass]
         decision == ScopeDecision(result, c, name)
         targetModelName ==
           getFormattedModelName(Val(TargetClass(c, RegexScopeName(name))), options)
         cs == IF decision = "create"
               THEN [classes EXCEPT ![CurrentClass].scopes =
                       Some(Append(Val(@),
                                   NewScope(RegexScopeName(name), targetModelName)))]
               ELSE classes
         out == ExposeScopeMethod(heap, cs, result, result[si].name,
                                  CurrentClass, CurrentMethod)
     IN  /\ decision \in {"create", "reuse"}
         /\ heap' = out.heap
         /\ classes' = out.classes
  /\ mi' = mi + 1
  /\ UNCHANGED <<options, result, pc, ci, si, mlen, app0>>

\* The forEach of a model is over: buildScopes goes to the next model.
NextModel ==
  /\ pc = "buildScopes"
  /\ si <= Len(result)
  /\ mi >= 1
  /\ mi > mlen
  /\ si' = si + 1
  /\ mi' = 0
  /\ UNCHANGED <<options, classes, heap, result, pc, ci, mlen, app0>>

\* Lines 226-230 and 86-88: describeModels returns (includeSchema is not
\* set) and the template is read.
ReturnModels ==
  /\ pc = "buildScopes"
  /\ si > Len(result)
  /\ pc' = "generateServices"
  /\ UNCHANGED <<options, classes, heap, result, ci, si, mi, mlen, app0>>

\* Lines 91-96.
ThrowUnsupportedDelimiter ==
  /\ pc = "generateServices"
  /\ options.namespaceCommonModels
  /\ options.namespaceDelimiter = <<".">>
  /\ pc' = "error"
  /\ UNCHANGED <<options, classes, heap, result, ci, si, mi, mlen, app0>>

\* Lines 101-119.
Render ==
  /\ pc = "generateServices"
  /\ ~(options.namespaceCommonModels /\ options.namespaceDelimiter = <<".">>)
  /\ pc' = "done"
  /\ UNCHANGED <<options, classes, heap, result, ci, si, mi, mlen, app0>>

Next ==
  \/ SkipIgnoredModel
  \/ SkipNotModel
  \/ DescribeModel
  \/ BuildScopes
  \/ BuildScopesOfModel
  \/ SkipOtherMethod
  \/ SkipScopeMethod
  \/ BuildScopeMethod
  \/ NextModel
  \/ ReturnModels
  \/ ThrowUnsupportedDelimiter
  \/ Render

Spec == Init /\ [][Next]_vars

-----------------------------------------------------------------------------
(* Properties.                                                             *)

\* describeModels has returned.
Described == pc \in {"generateServices", "done", "error"}

\* The classes the callback of describeModels has kept.
Collected == {result[i].cls : i \in 1..Len(result)}

\* Class c was visited and kept by describeModels (isUser is set last).
Kept(c) == IsSome(classes[c].isUser)

\* The methods c.methods held before the run.
OriginalMethods(c) == app0.classes[c].methods

Range(seq) == {seq[i] : i \in 1..Len(seq)}

MethodNames(c) == {NameOf(heap, id) : id \in Range(classes[c].methods)}

\* The scope descriptor of class c for scopeName exists and is not null.
HasDescriptor(c, scopeName) ==
  /\ IsSome(classes[c].scopes)
  /\ \E k \in 1..Len(Val(classes[c].scopes)) :
       /\ Val(classes[c].scopes)[k].name = scopeName
       /\ ~Val(classes[c].scopes)[k].isNull

HasNullSentinel(c, scopeName) ==
  /\ IsSome(classes[c].scopes)
  /\ \E k \in 1..Len(Val(classes[c].scopes)) :
       /\ Val(classes[c].scopes)[k].name = scopeName
       /\ Val(classes[c].scopes)[k].isNull

\* The API names of the operations of the scope of class c for scopeName.
ScopeApiNames(c, scopeName) ==
  {e.apiName : e \in UNION {Range(Val(classes[c].scopes)[k].methods) :
                  k \in {j \in 1..Len(Val(classes[c].scopes)) :
                           Val(classes[c].scopes)[j].name = scopeName}}}

\* The collected class a relation of class c resolves to (0: none).
ResolvedTarget(c, scopeName) ==
  IF IsSome(TargetClass(classes[c], scopeName))
  THEN LET i == findModelByName(result,
                  getFormattedModelName(Val(TargetClass(classes[c], scopeName)),
                                        options))
       IN  IF i = 0 THEN 0 ELSE result[i].cls
  ELSE 0

\* C1 (as claimed): after describeModels, for every relation method
\* prototype.__<op>__<scopeName> of a collected model M whose relation
\* resolves to a collected model T, the methods of T hold a method named
\* ::<op>::<m>::<scopeName> with <m> the name of M as declared, and for op
\* get M.scopes[scopeName].methods[scopeName] exists.
C1_ReverseMethodNamedAfterDeclaredModel ==
  Described =>
    \A m \in Collected : \A id \in Range(OriginalMethods(m)) :
      LET name == NameOf(heap, id)
          t == ResolvedTarget(m, RegexScopeName(name))
      IN  (RegexMatches(name) /\ t # 0) =>
            /\ ReverseName(RegexOp(name), classes[m].name, RegexScopeName(name))
                 \in MethodNames(t)
            /\ RegexOp(name) = S_get =>
                 /\ HasDescriptor(m, RegexScopeName(name))
                 /\ RegexScopeName(name)
                      \in ScopeApiNames(m, RegexScopeName(name))

\* The methods of class c named createMany.
CreateManyMethods(c) ==
  SelectSeq(classes[c].methods, LAMBDA id : NameOf(heap, id) = S_createMany)

\* C2 (as claimed): after describeModels a model whose method list held
\* exactly one method named create has exactly one createMany method, with
\* the parameter list of its create method and isReturningArray true; a
\* model with no or several create methods has no createMany method.
C2_CreateManyMirrorsCreate ==
  Described =>
    \A c \in 1..Len(classes) : Kept(c) =>
      LET creates == CreateMethods(app0.heap, OriginalMethods(c))
          manys == CreateManyMethods(c)
      IN  IF Len(creates) = 1
          THEN /\ Len(manys) = 1
               /\ Get(heap, manys[1], "accepts") = Get(heap, creates[1], "accepts")
               /\ Get(heap, manys[1], "isReturningArray") = Some(TRUE)
          ELSE Len(manys) = 0

\* C5 (as claimed): after augmentation the parameter list of every instance
\* method of a collected model whose constructor declares parameters is the
\* constructor's parameters followed by the parameters the method declared.
C5_CtorParamsPrependedOnce ==
  \A c \in 1..Len(classes) :
    (Kept(c) /\ classes[c].ctorAccepts # <<>>) =>
      \A id \in Range(classes[c].methods) :
        (heap[id].kind \in {"method", "createMany"}
           /\ ~Val(Get(heap, id, "isStatic"))) =>
          Val(Get(heap, id, "accepts")) =
            classes[c].ctorAccepts \o Val(app0.heap[Root(heap, id)].accepts)

\* C6 (as claimed): when the configuration error is raised, no class of the
\* application has been collected or changed.
C6_ConfigErrorBeforeAnyWork ==
  pc = "error" =>
    /\ result = <<>>
    /\ classes = app0.classes
    /\ heap = app0.heap

\* The parameters of a list that come from the URL path and are not id.
PathParams(accepts) ==
  {accepts[k] : k \in {j \in 1..Len(accepts) :
                         accepts[j].source = "path" /\ accepts[j].arg # "id"}}

\* C9 (as claimed): after describeModels every method of every collected
\* model with a path parameter other than id has it in resourceParams and
\* has hasResourceParams set; a method without one has no resourceParams.
C9_ResourceParamsOfEveryMethod ==
  Described =>
    \A c \in Collected : \A id \in Range(classes[c].methods) :
      LET params == PathParams(Val(Get(heap, id, "accepts")))
      IN  IF params = {}
          THEN ~IsSome(Get(heap, id, "resourceParams"))
          ELSE /\ IsSome(Get(heap, id, "resourceParams"))
               /\ params \subseteq Range(Val(Get(heap, id, "resourceParams")))
               /\ Get(heap, id, "hasResourceParams") = Some(TRUE)

\* A step of buildScopeMethod that made a createMany clone of a scope method.
MadeScopeCreateMany ==
  /\ Len(heap') > Len(heap)
  /\ heap'[Len(heap')].kind = "scopeCreateMany"

\* C8 (as claimed): whenever buildScopeMethod makes a createMany clone of a
\* scope method, the clone is stored under another API name than the scope
\* method, and after the call the scope holds both.
C8_CreateManyStoredBesideSingular ==
  [][MadeScopeCreateMany =>
       \E c \in 1..Len(classes') :
         /\ IsSome(classes'[c].scopes)
         /\ \E k \in 1..Len(Val(classes'[c].scopes)) :
              \E e1, e2 \in Range(Val(classes'[c].scopes)[k].methods) :
                /\ e1.method = Len(heap') - 1
                /\ e2.method = Len(heap')
                /\ e1.apiName # e2.apiName]_vars

\* Whether class c is ignored by options.modelsToIgnore.
Ignored(c) == getFormattedModelName(classes[c].name, options) \in options.modelsToIgnore

\* The relation methods of the application in class c, as positions of its
\* method list.
RelationPositions(c) ==
  {k \in 1..Len(OriginalMethods(c)) : RegexMatches(NameOf(heap, OriginalMethods(c)[k]))}

ScopeNameAt(c, k) == RegexScopeName(NameOf(heap, OriginalMethods(c)[k]))

\* C4 (as claimed): a model whose formatted name is in modelsToIgnore has no
\* entry in the result, never gets a reverse method, and every relation of
\* a collected model that targets it ends with the null sentinel.
C4_IgnoredModelRemoved ==
  \A c \in 1..Len(classes) : Ignored(c) =>
    /\ \A i \in 1..Len(result) :
         result[i].name # getFormattedModelName(classes[c].name, options)
    /\ classes[c].methods = OriginalMethods(c)
    /\ Described =>
         \A m \in Collected : \A k \in RelationPositions(m) :
           TargetClass(classes[m], ScopeNameAt(m, k)) = Some(classes[c].name) =>
             /\ HasNullSentinel(m, ScopeNameAt(m, k))
             /\ ~HasDescriptor(m, ScopeNameAt(m, k))

\* Position of class c in the result (0: not collected).
ModelPos(c) ==
  IF c \in Collected THEN CHOOSE i \in 1..Len(result) : result[i].cls = c ELSE 0

\* buildScopesOfModel is past method k of class c.
Visited(c, k) ==
  /\ pc # "describeModels"
  /\ c \in Collected
  /\ \/ ModelPos(c) < si
     \/ ModelPos(c) = si /\ mi > k

\* The relation of class c named scopeName has no resolvable target class,
\* or its target model is not among the collected models.
Unreachable(c, scopeName) == ResolvedTarget(c, scopeName) = 0

ExcludedAt(c, k) ==
  ExcludedBySwagger(classes[c], NameOf(heap, OriginalMethods(c)[k]))

\* The step is buildScopeMethod on a relation method, and it changes nothing
\* but the position of the forEach.
AtRelationMethod == AtScopeMethod /\ RegexMatches(NameOf(heap, CurrentMethod))

SkippedEntirely == heap' = heap /\ classes' = classes

NullLatch ==
  (AtRelationMethod
     /\ HasNullSentinel(CurrentClass, RegexScopeName(NameOf(heap, CurrentMethod))))
    => SkippedEntirely

\* A method the filter excludes, visited while M.scopes[s] has no entry,
\* records at most the null sentinel (when the target is not collected).
ExcludedSkip ==
  (AtRelationMethod
     /\ ExcludedBySwagger(classes[CurrentClass], NameOf(heap, CurrentMethod))
     /\ ScopeIndex(Val(classes[CurrentClass].scopes),
                   RegexScopeName(NameOf(heap, CurrentMethod))) = 0)
    => /\ heap' = heap
       /\ \/ classes' = classes
          \/ classes' = [classes EXCEPT ![CurrentClass].scopes =
                           Some(Append(Val(@), NullScope(
                             RegexScopeName(NameOf(heap, CurrentMethod)))))]

FirstMatch(c, k) ==
  /\ k \in RelationPositions(c)
  /\ \A j \in RelationPositions(c) : ScopeNameAt(c, j) = ScopeNameAt(c, k) => k <= j

\* The relation method at position k of class c was visited and skipped:
\* buildScopeMethod returned before writing the redirect note.
Skipped(c, k) == Visited(c, k) /\ ~IsSome(heap[OriginalMethods(c)[k]].internal)

\* buildScopesOfModel has visited every method of class c.
ScopesBuilt(c) == pc # "describeModels" /\ c \in Collected /\ ModelPos(c) < si

ReverseMethods == {id \in 1..Len(heap) : heap[id].kind = "reverse"}

\* The methods of the application that passed the checks of buildScopeMethod.
ExposedMethods ==
  {id \in 1..Len(heap) : heap[id].kind = "method" /\ IsSome(heap[id].internal)}

Terminated == pc \in {"done", "error"}

PcRank ==
  CASE pc = "describeModels" -> 0
    [] pc = "buildScopes" -> 1
    [] pc = "generateServices" -> 2
    [] OTHER -> 3

\* How far the run is: the statement, the class of describeModels, the model
\* of buildScopes and the method of its forEach.
Position == <<PcRank, ci, si, mi>>

RECURSIVE LexLess(_, _)
LexLess(a, b) ==
  /\ a # <<>>
  /\ \/ a[1] < b[1]
     \/ a[1] = b[1] /\ LexLess(Tail(a), Tail(b))

\* Every step moves the run forward, a forEach never visits more methods
\* than the list held when it started, and the positions are bounded.
Advances ==
  /\ LexLess(Position, Position')
  /\ ci' <= Len(classes') + 1
  /\ si' <= Len(result') + 1
  /\ mi' <= mlen' + 1
  /\ (mi >= 1 /\ mi' >= 1) => mlen' = mlen
  /\ Len(result') <= Len(classes')
  /\ Len(classes') = Len(classes)

\* A relation method that passes the checks has a target model to push the
\* reverse method to (line 317 does not throw).
ReverseModelFound ==
  (AtRelationMethod
     /\ ScopeDecision(result, classes[CurrentClass], NameOf(heap, CurrentMethod))
          \in {"create", "reuse"})
    => ResolvedTarget(CurrentClass, RegexScopeName(NameOf(heap, CurrentMethod))) # 0

\* C10: no method made during scope resolution is processed as a relation
\* method: buildScopes ends (every step advances a bounded position and no
\* step throws), every reverse method is in one method list and there are
\* as many of them as methods of the application that passed the checks,
\* and every scope operation is cloned from a method of the application.
C10_SynthesizedMethodsNotProcessed ==
  /\ [][Advances]_vars
  /\ []ReverseModelFound
  /\ [](AtRelationMethod => heap[CurrentMethod].kind = "method")
  /\ [](/\ Cardinality(ReverseMethods) = Cardinality(ExposedMethods)
        /\ \A id \in ReverseMethods :
             /\ heap[heap[id].proto].kind = "method"
             /\ \E c \in Collected : id \in Range(classes[c].methods)
        /\ \A c \in Collected : IsSome(classes[c].scopes) =>
             \A k \in 1..Len(Val(classes[c].scopes)) :
               \A e \in Range(Val(classes[c].scopes)[k].methods) :
                 /\ heap[Root(heap, e.method)].kind = "method"
                 /\ Root(heap, e.method) \in Range(OriginalMethods(c)))

\* C10 witness: the run is over; a model holds the reverse method of one of
\* its own relations, appended to its list during its own forEach, and the
\* reverse method of a relation of a model visited after it.
C10_Witness ==
  /\ Terminated
  /\ \E c, d \in Collected : \E id1, id2 \in Range(classes[c].methods) :
       /\ heap[id1].kind = "reverse"
       /\ heap[id1].proto \in Range(OriginalMethods(c))
       /\ ModelPos(c) < ModelPos(d)
       /\ heap[id2].kind = "reverse"
       /\ heap[id2].proto \in Range(OriginalMethods(d))

====
